---- MODULE Spec2Model ----
(***************************************************************************)
(* Passkey plugin of better-auth (src/unnamed/part_000): the four          *)
(* endpoints generate-register-options, generate-authenticate-options,     *)
(* verify-registration and verify-authentication, the signed challenge     *)
(* cookie they share, the passkey table behind the adapter and the         *)
(* sessions created by verify-authentication.                              *)
(*                                                                         *)
(* A handler is an async function: between two awaits it runs alone.  The  *)
(* awaits on getSignedCookie and on the @simplewebauthn verifier touch no  *)
(* shared state, so they run in the same step as the code around them.     *)
(* verify-registration touches shared state once (adapter.create) and is   *)
(* one step; verify-authentication is three: up to findOne and the         *)
(* verifier's answer, adapter.update, createSession.                       *)
(***************************************************************************)
EXTENDS Integers, Sequences, FiniteSets, TLC

\* ---------------------------------------------------------------- bounds
NumProcs == 2       \* verify requests in flight at once
MaxCounter == 2     \* largest signature counter an authenticator reports
MaxPasskeys == 1    \* rows the passkey table can hold, requests racing
MaxRows == 2        \* rows the passkey table can hold, one request at a time
MaxCookies == 2     \* challenge cookies issued
MaxSessions == 2    \* sessions created
MaxTicks == 1       \* clock ticks (one tick = one cookie lifetime)

\* ---------------------------------------------------------------- values
Procs == 1..NumProcs
Users == {"A", "B"}
Anonymous == ""
CredIds == {"c1", "c2"}
Undefined == "undefined"
CallbackURLs == {Undefined, "", "/dashboard"}
SiteOrigin == "https://example.com"
OtherOrigin == "https://evil.test"
NoHeader == ""
ConfiguredRpID == "example.com"
NoCookie == 0
ForgedCookie == -1
Null == [expectedChallenge |-> 0, userData |-> [id |-> Anonymous],
         callbackURL |-> Undefined, iat |-> 0]
NoKey == [base64 |-> [key |-> ""]]
NoPasskey == [id |-> "", userId |-> "", counter |-> 0, publicKey |-> NoKey,
              createdAt |-> 0]
NoList == [present |-> FALSE, ids |-> {}]

VARIABLES
    options,    \* PasskeyOptions handed to passkey(): origin, rpID
    nodeEnv,    \* process.env.NODE_ENV when passkey() ran
    store,      \* the adapter's "passkey" table, rows in insertion order
    sessions,   \* sessions created by internalAdapter.createSession
    issued,     \* signed challenge cookies handed out, by challenge number
    now,        \* wall clock, seconds
    req,        \* verify requests in flight, one per slot
    consumed,   \* challenges a successful verify step has used
    last        \* the answer just sent to a client, until it is read

vars == <<options, nodeEnv, store, sessions, issued, now, req, consumed, last>>

\* ---------------------------------------------------------------- config
webAuthnChallengeCookieExpiration == 60 * 60 * 24

\* opts.rpID: the development override replaces the configured rpID.
OptsRpID == IF nodeEnv = "development" THEN "localhost" ELSE options.rpID

\* The configured origin not looked at.
EffectiveOrigin_HeaderOnly(header) == header

\* const origin = options.origin || ctx.headers?.get("origin") || "";
EffectiveOrigin(header) ==
    IF options.origin # NoHeader THEN options.origin ELSE header

\* ---------------------------------------------------------------- cookie
\* setSignedCookie(name, JSON.stringify(data), secret, {maxAge}): the signed
\* value is the JSON of data alone; maxAge is an attribute the browser keeps.
SealedCookie(challenge, userId, callbackURL) ==
    [expectedChallenge |-> challenge, userData |-> [id |-> userId],
     callbackURL |-> callbackURL, iat |-> now]

\* getSignedCookie(name, secret): the value when the signature verifies,
\* nothing otherwise.  The call is given neither a clock nor the maxAge.
GetSignedCookie(cookie) ==
    IF cookie \in 1..Len(issued) THEN issued[cookie] ELSE Null

\* The cookie's Max-Age has run out (what a browser would use to drop it).
Expired(cookie) ==
    /\ cookie \in 1..Len(issued)
    /\ now >= issued[cookie].iat + webAuthnChallengeCookieExpiration

\* ---------------------------------------------------------------- adapter
RECURSIVE FirstIndex(_, _, _)
FirstIndex(rows, id, i) ==
    IF i > Len(rows) THEN 0
    ELSE IF rows[i].id = id THEN i
    ELSE FirstIndex(rows, id, i + 1)

\* adapter.findOne({model: "passkey", where: [{field: "id", value}]})
FindOne(rows, id) ==
    IF FirstIndex(rows, id, 1) = 0 THEN NoPasskey
    ELSE rows[FirstIndex(rows, id, 1)]

\* adapter.findMany({model: "passkey", where: [{field: "userId", value}]})
FindMany(rows, userId) ==
    SelectSeq(rows, LAMBDA row : row.userId = userId)

\* A store that takes any row, whatever ids it already holds.
CreateResults_NoKey(rows, data) == BOOLEAN

\* adapter.create({model: "passkey", data}) returns the row (TRUE) or throws
\* (FALSE).  The table is keyed by the credential id: a row whose id is
\* already there is not taken.
CreateResults(rows, data) ==
    IF \E i \in 1..Len(rows) : rows[i].id = data.id THEN {FALSE} ELSE BOOLEAN

\* The update rewriting rows it was not asked for.
UpdateCounter_EveryRow(rows, id, counter) ==
    [i \in 1..Len(rows) |-> [rows[i] EXCEPT !.counter = counter]]

\* adapter.update({where: [{field: "id", value}], update: {counter}})
UpdateCounter(rows, id, counter) ==
    [i \in 1..Len(rows) |->
        IF rows[i].id = id THEN [rows[i] EXCEPT !.counter = counter]
        ELSE rows[i]]

\* ---------------------------------------------------------------- requests
Idle ==
    [kind |-> "none", pc |-> "idle", caller |-> Anonymous, email |-> Undefined,
     cookie |-> NoCookie, header |-> NoHeader, origin |-> NoHeader,
     challenge |-> 0, respId |-> "", respCounter |-> 0,
     passkey |-> NoPasskey, callbackURL |-> Undefined, rpID |-> "",
     allowCredentials |-> NoList, oracle |-> "none",
     status |-> 0, body |-> "none", message |-> "",
     storeFailed |-> FALSE, created |-> FALSE, updated |-> FALSE,
     prevCounter |-> 0, session |-> 0, usedBefore |-> FALSE,
     expiredAtStart |-> FALSE]

NoReply == [Idle EXCEPT !.pc = "none"]

\* Request slots are interchangeable: a new request takes the lowest free one.
Free(p) ==
    /\ last = NoReply
    /\ req[p].pc = "idle"
    /\ \A q \in 1..(p - 1) : req[q].pc # "idle"

\* ctx.json(body, {status}) or a thrown APIError: the handler has answered.
Respond(r, status, body, message) ==
    [r EXCEPT !.pc = "done", !.status = status, !.body = body,
              !.message = message]

Init ==
    /\ options = [origin |-> NoHeader, rpID |-> ConfiguredRpID]
    /\ nodeEnv = "production"
    /\ store = <<>>
    /\ sessions = <<>>
    /\ issued = <<>>
    /\ now = 0
    /\ req = [p \in Procs |-> Idle]
    /\ consumed = {}
    /\ last = NoReply

\* ---------------------------------------------------------------- steps
\* A handler step ends by answering (the slot is free again and the answer
\* is on its way to the client) or by awaiting the adapter.
Step(p, r) ==
    /\ last' = IF r.pc = "done" THEN r ELSE NoReply
    /\ req' = [req EXCEPT ![p] = IF r.pc = "done" THEN Idle ELSE r]

\* The client reads the answer.
ClientReadsAnswer ==
    /\ last # NoReply
    /\ last' = NoReply
    /\ UNCHANGED <<options, nodeEnv, store, sessions, issued, now, req, consumed>>

\* ---------------------------------------------------------------- clock
Tick ==
    /\ last = NoReply
    /\ now < MaxTicks * webAuthnChallengeCookieExpiration
    /\ now' = now + webAuthnChallengeCookieExpiration
    /\ UNCHANGED <<options, nodeEnv, store, sessions, issued, req, consumed, last>>

\* ---------------------------------------------------------------- issue
\* The ids of rows.map((passkey) => ({id: passkey.id, transports: ...})).
CredentialIds(rows) == {rows[i].id : i \in 1..Len(rows)}

\* GET /passkey/generate-register-options (sessionMiddleware: a caller).
\* The answer is the options: their challenge and rpID.
generatePasskeyRegistrationOptions(caller) ==
    /\ last = NoReply
    /\ Len(issued) < MaxCookies
    /\ issued' = Append(issued, SealedCookie(Len(issued) + 1, caller, Undefined))
    /\ last' = Respond([Idle EXCEPT !.kind = "reg_options", !.caller = caller,
                          !.cookie = Len(issued) + 1,
                          !.challenge = Len(issued) + 1,
                          !.rpID = OptsRpID],
                      200, "options", "")
    /\ UNCHANGED <<options, nodeEnv, store, sessions, now, req, consumed>>

\* if (session) userPasskeys = findMany(userId = session.user.id): the user
\* whose passkeys go into the allow-list; body.email is not read.
AllowListUser(session, email) == session

\* ...(userPasskeys.length ? {allowCredentials: userPasskeys.map(...)} : {})
AllowCredentials(userPasskeys) ==
    IF Len(userPasskeys) # 0
    THEN [present |-> TRUE, ids |-> CredentialIds(userPasskeys)]
    ELSE NoList

\* POST /passkey/generate-authenticate-options; session is Anonymous when
\* getSessionFromCtx finds none.
generatePasskeyAuthenticationOptions(session, email, callbackURL) ==
    LET userPasskeys ==
            IF AllowListUser(session, email) # Anonymous
            THEN FindMany(store, AllowListUser(session, email))
            ELSE <<>>
    IN  /\ last = NoReply
        /\ Len(issued) < MaxCookies
        /\ issued' = Append(issued,
                          SealedCookie(Len(issued) + 1, session, callbackURL))
        /\ last' = Respond([Idle EXCEPT !.kind = "auth_options",
                              !.caller = session, !.email = email,
                              !.cookie = Len(issued) + 1,
                              !.challenge = Len(issued) + 1,
                              !.callbackURL = callbackURL,
                              !.rpID = OptsRpID,
                              !.allowCredentials = AllowCredentials(userPasskeys)],
                          200, "options", "")
        /\ UNCHANGED <<options, nodeEnv, store, sessions, now, req, consumed>>

\* ---------------------------------------------------------------- oracle
\* The rpIDs a ceremony is made for: the one the issued options carry
\* (opts.rpID) and the configured one.
RpIDs == {OptsRpID, options.rpID}

\* What an authenticator (or an attacker) posts as body.response: the
\* credential id, the challenge and rpID it was made for, the origin of the
\* page that made it, the authenticator's counter, and whether
\* response.transports is there.
Responses ==
    [id : CredIds, challenge : 0..Len(issued), origin : {SiteOrigin},
     rpID : RpIDs, counter : 0..MaxCounter, transports : BOOLEAN]

BlankResponse ==
    [id |-> "c1", challenge |-> 0, origin |-> SiteOrigin, rpID |-> ConfiguredRpID,
     counter |-> 0, transports |-> TRUE]

\* Buffer.from(bytes).toString("base64") and Buffer.from(text, "base64").
ToBase64(bytes) == [base64 |-> bytes]
FromBase64(text) == text.base64

\* registrationInfo.credentialPublicKey: the public key of the key pair the
\* authenticator made for the credential.
CredentialPublicKey(resp) == [key |-> resp.id]

\* verifyRegistrationResponse({response, expectedChallenge, expectedOrigin,
\* expectedRPID}): verified with registrationInfo, or not.
VerifyRegistrationResponse(resp, expectedChallenge, expectedOrigin, expectedRPID) ==
    /\ resp.challenge = expectedChallenge
    /\ resp.origin = expectedOrigin
    /\ resp.rpID = expectedRPID

\* verifyAuthenticationResponse({..., authenticator}): as above, the
\* signature verifies under the authenticator's public key, and the
\* response's counter is strictly greater than the authenticator's.
VerifyAuthenticationResponse(resp, expectedChallenge, expectedOrigin, expectedRPID, authenticator) ==
    /\ resp.challenge = expectedChallenge
    /\ resp.origin = expectedOrigin
    /\ resp.rpID = expectedRPID
    /\ authenticator.credentialPublicKey = CredentialPublicKey(resp)
    /\ resp.counter > authenticator.counter

\* A response the verifier does not accept comes back as verified: false or
\* as an exception.
OracleOutcomes(accepted) ==
    IF accepted THEN {"verified"} ELSE {"rejected", "threw"}

\* ---------------------------------------------------------------- verify-registration
\* The subject check left out.
SubjectMatches_Skipped(userData, caller) == TRUE

\* if (userData.id !== ctx.context.session.user.id) throw UNAUTHORIZED
SubjectMatches(userData, caller) == userData.id = caller

\* transports: resp.response.transports.join(","): a TypeError when the
\* response has no transports.
TransportsJoinThrows(resp) == ~resp.transports

\* const newPasskey: Passkey = {userId: userData.id, id: credentialID,
\* publicKey: pubKey, counter, createdAt: new Date(), ...}
NewPasskey(userData, resp) ==
    [id |-> resp.id, userId |-> userData.id, counter |-> resp.counter,
     publicKey |-> ToBase64(CredentialPublicKey(resp)), createdAt |-> now]

\* expectedRPID: options.rpID
RegistrationExpectedRPID == options.rpID

\* What verifyRegistrationResponse can answer to this request: it is called
\* with the cookie's challenge, the effective origin and options.rpID, once
\* the origin, cookie and subject checks have passed.
RegistrationOutcomes(caller, header, cookie, resp) ==
    IF /\ EffectiveOrigin(header) # NoHeader
       /\ GetSignedCookie(cookie) # Null
       /\ SubjectMatches(GetSignedCookie(cookie).userData, caller)
    THEN OracleOutcomes(VerifyRegistrationResponse(resp,
             GetSignedCookie(cookie).expectedChallenge, EffectiveOrigin(header),
             RegistrationExpectedRPID))
    ELSE {"none"}

\* The verified response whose row the handler goes on to create.
Creates(resp, out) == out = "verified" /\ ~TransportsJoinThrows(resp)

\* What adapter.create can answer to this request (nothing when it is not
\* called), the table holding at most capacity rows.
RegistrationCreateResults(cookie, resp, out, capacity) ==
    IF Creates(resp, out)
    THEN {ok \in CreateResults(store,
                      NewPasskey(GetSignedCookie(cookie).userData, resp)) :
            ok => Len(store) < capacity}
    ELSE {FALSE}

\* The exception left uncaught.
RegistrationFailed_Uncaught(r) ==
    Respond(r, 500, "error", "Internal Server Error")

\* catch (e) {return ctx.json(null, {status: 400, body: {message:
\* "Registration failed"}})}
RegistrationFailed(r) == Respond(r, 400, "null", "Registration failed")

\* POST /passkey/verify-registration.  ok: adapter.create returns (or
\* throws, and the catch block answers).
verifyPasskeyRegistration(p, caller, header, cookie, resp, out, ok) ==
    LET origin == EffectiveOrigin(header)
        challengeString == GetSignedCookie(cookie)
        userData == challengeString.userData
        r == [Idle EXCEPT !.kind = "reg", !.caller = caller, !.cookie = cookie,
                          !.header = header, !.origin = origin,
                          !.respId = resp.id, !.respCounter = resp.counter,
                          !.usedBefore = cookie \in consumed,
                          !.expiredAtStart = Expired(cookie)]
        read == [r EXCEPT !.challenge = challengeString.expectedChallenge]
        called == [read EXCEPT !.oracle = out, !.rpID = RegistrationExpectedRPID]
        newPasskey == NewPasskey(userData, resp)
        creates == Creates(resp, out)
    IN  /\ Free(p)
        /\ out \in RegistrationOutcomes(caller, header, cookie, resp)
        /\ creates => ok \in CreateResults(store, newPasskey)
        /\ ~creates => ~ok
        /\ Step(p,
              IF origin = NoHeader THEN Respond(r, 400, "null", "")
              ELSE IF challengeString = Null THEN Respond(r, 400, "null", "")
              ELSE IF ~SubjectMatches(userData, caller)
                   THEN Respond(read, 401, "error", "UNAUTHORIZED")
              ELSE IF out = "threw" THEN RegistrationFailed(called)
              ELSE IF out = "rejected" THEN Respond(called, 400, "null", "")
              ELSE IF TransportsJoinThrows(resp) THEN RegistrationFailed(called)
              ELSE IF ~ok
                   THEN RegistrationFailed([called EXCEPT !.storeFailed = TRUE])
              ELSE Respond([called EXCEPT !.created = TRUE,
                                          !.passkey = newPasskey],
                           200, "passkey", ""))
        /\ store' = IF creates /\ ok THEN Append(store, newPasskey) ELSE store
        /\ consumed' = IF creates /\ ok THEN consumed \cup {cookie} ELSE consumed
        /\ UNCHANGED <<options, nodeEnv, sessions, issued, now>>

\* ---------------------------------------------------------------- verify-authentication
\* The session made for the user the cookie was sealed for.
SessionSubject_FromCookie(passkey, userData) == userData.id

\* createSession(passkey.userId, ctx.request)
SessionSubject(passkey, userData) == passkey.userId

\* The lookup's result left unchecked.
PasskeyMissing_Unchecked(passkey) == FALSE

\* if (!passkey) return ctx.json(null, {status: 401, ...})
PasskeyMissing(passkey) == passkey = NoPasskey

\* expectedRPID: opts.rpID
AuthenticationExpectedRPID == OptsRpID

\* authenticator: {credentialID: passkey.id, credentialPublicKey: new
\* Uint8Array(Buffer.from(passkey.publicKey, "base64")), counter: passkey.counter}
Authenticator(passkey) ==
    [credentialID |-> passkey.id,
     credentialPublicKey |-> FromBase64(passkey.publicKey),
     counter |-> passkey.counter]

\* What verifyAuthenticationResponse can answer to this request: it is
\* called with the cookie's challenge, the effective origin, opts.rpID and
\* the passkey row just read, once that row was found.
AuthenticationOutcomes(header, cookie, resp) ==
    IF /\ EffectiveOrigin(header) # NoHeader
       /\ GetSignedCookie(cookie) # Null
       /\ ~PasskeyMissing(FindOne(store, resp.id))
    THEN OracleOutcomes(VerifyAuthenticationResponse(resp,
             GetSignedCookie(cookie).expectedChallenge, EffectiveOrigin(header),
             AuthenticationExpectedRPID, Authenticator(FindOne(store, resp.id))))
    ELSE {"none"}

\* POST /passkey/verify-authentication, up to the await on adapter.update.
verifyPasskeyAuthentication(p, header, cookie, resp, out) ==
    LET origin == EffectiveOrigin(header)
        challengeString == GetSignedCookie(cookie)
        expectedChallenge == challengeString.expectedChallenge
        passkey == FindOne(store, resp.id)
        r == [Idle EXCEPT !.kind = "auth", !.cookie = cookie,
                          !.header = header, !.origin = origin,
                          !.respId = resp.id, !.respCounter = resp.counter,
                          !.usedBefore = cookie \in consumed,
                          !.expiredAtStart = Expired(cookie)]
        read == [r EXCEPT !.challenge = expectedChallenge]
        called == [read EXCEPT !.oracle = out, !.passkey = passkey,
                               !.rpID = AuthenticationExpectedRPID]
    IN  /\ Free(p)
        /\ out \in AuthenticationOutcomes(header, cookie, resp)
        /\ Step(p,
              IF origin = NoHeader THEN Respond(r, 400, "null", "")
              ELSE IF challengeString = Null THEN Respond(r, 400, "null", "")
              ELSE IF PasskeyMissing(passkey)
                   THEN Respond(read, 401, "null", "Passkey not found")
              ELSE IF out = "threw"
                   THEN Respond(called, 400, "null", "Authentication failed")
              ELSE IF out = "rejected"
                   THEN Respond(called, 401, "null", "verification failed")
              ELSE [called EXCEPT !.pc = "auth_update",
                                  !.callbackURL = challengeString.callbackURL])
        /\ UNCHANGED <<options, nodeEnv, store, sessions, issued, now, consumed>>

\* The update's failure swallowed: the handler goes on to the session.
verifyPasskeyAuthentication_update_Swallowed(p, ok) ==
    /\ last = NoReply
    /\ req[p].pc = "auth_update"
    /\ store' = IF ok THEN UpdateCounter(store, req[p].passkey.id, req[p].respCounter)
                ELSE store
    /\ Step(p, [req[p] EXCEPT !.pc = "auth_session", !.updated = ok,
                  !.prevCounter = FindOne(store, req[p].passkey.id).counter])
    /\ UNCHANGED <<options, nodeEnv, sessions, issued, now, consumed>>

\* adapter.update({where id = passkey.id, update: {counter: newCounter}})
\* returns or throws (the catch block answers 400).
verifyPasskeyAuthentication_update(p, ok) ==
    /\ last = NoReply
    /\ req[p].pc = "auth_update"
    /\ IF ok
       THEN /\ store' = UpdateCounter(store, req[p].passkey.id, req[p].respCounter)
            /\ Step(p, [req[p] EXCEPT !.pc = "auth_session", !.updated = TRUE,
                      !.prevCounter = FindOne(store, req[p].passkey.id).counter])
       ELSE /\ Step(p, Respond([req[p] EXCEPT !.storeFailed = TRUE], 400, "null",
                               "Authentication failed"))
            /\ UNCHANGED store
    /\ UNCHANGED <<options, nodeEnv, sessions, issued, now, consumed>>

\* The redirect left out of every answer.
Redirects_Never(callbackURL) == FALSE

\* if (callbackURL): a string that is there and not empty.
Redirects(callbackURL) == callbackURL \notin {Undefined, ""}

\* internalAdapter.createSession(passkey.userId) returns or throws; then the
\* session cookie is set and the session is returned, with the callbackURL
\* when the challenge cookie carried one.
verifyPasskeyAuthentication_session(p, ok) ==
    /\ last = NoReply
    /\ req[p].pc = "auth_session"
    /\ ok => Len(sessions) < MaxSessions
    /\ IF ok
       THEN /\ sessions' = Append(sessions,
                  [userId |-> SessionSubject(req[p].passkey,
                                  GetSignedCookie(req[p].cookie).userData),
                   passkeyId |-> req[p].respId,
                   counter |-> req[p].respCounter,
                   updated |-> req[p].updated])
            /\ consumed' = consumed \cup {req[p].cookie}
            /\ Step(p, Respond([req[p] EXCEPT !.session = Len(sessions) + 1], 200,
                      IF Redirects(req[p].callbackURL) THEN "redirect"
                      ELSE "session", ""))
       ELSE /\ Step(p, Respond([req[p] EXCEPT !.storeFailed = TRUE], 400, "null",
                               "Authentication failed"))
            /\ UNCHANGED <<sessions, consumed>>
    /\ UNCHANGED <<options, nodeEnv, store, issued, now>>

\* ---------------------------------------------------------------- inputs
Cookies == {ForgedCookie, NoCookie} \cup (1..Len(issued))
Headers == {NoHeader, SiteOrigin, OtherOrigin}

\* A response the verifier is bound to reject for its challenge or for the
\* request's origin is rejected whatever else it holds: one of them stands
\* for all (of an assertion the id is read before, for the lookup).
Hopeless(resp, header, cookie) ==
    \/ resp.challenge # GetSignedCookie(cookie).expectedChallenge
    \/ EffectiveOrigin(header) # resp.origin

\* The handler reads body.response only after the origin and the cookie
\* checks (and registration after the subject check): before that every
\* response is the same request.
RegistrationResponses(caller, header, cookie) ==
    IF \/ EffectiveOrigin(header) = NoHeader
       \/ GetSignedCookie(cookie) = Null
       \/ GetSignedCookie(cookie).userData.id # caller
    THEN {BlankResponse}
    ELSE {r \in Responses : Hopeless(r, header, cookie) => r = BlankResponse}

\* An assertion has no transports; and of a response naming an unknown
\* credential only the id is read.
AuthenticationResponses(header, cookie) ==
    IF \/ EffectiveOrigin(header) = NoHeader
       \/ GetSignedCookie(cookie) = Null
    THEN {BlankResponse}
    ELSE {r \in Responses :
            /\ r.transports
            /\ (Hopeless(r, header, cookie) \/ FindOne(store, r.id) = NoPasskey)
                  => r = [BlankResponse EXCEPT !.id = r.id]}

\* body.email: absent, or a user's.
Emails == {Undefined} \cup Users

\* The requests, over the slots P, the callbackURLs a client asks for and a
\* passkey table of at most capacity rows.
Requests(P, callbackURLs, capacity) ==
    \/ \E u \in Users : generatePasskeyRegistrationOptions(u)
    \/ \E s \in Users \cup {Anonymous}, email \in Emails, cb \in callbackURLs :
          generatePasskeyAuthenticationOptions(s, email, cb)
    \/ \E p \in {q \in P : Free(q)}, caller \in Users, header \in Headers,
          cookie \in Cookies :
          \E resp \in RegistrationResponses(caller, header, cookie) :
             \E out \in RegistrationOutcomes(caller, header, cookie, resp) :
                \E ok \in RegistrationCreateResults(cookie, resp, out, capacity) :
                   verifyPasskeyRegistration(p, caller, header, cookie, resp,
                                             out, ok)
    \/ \E p \in {q \in P : Free(q)}, header \in Headers, cookie \in Cookies :
          \E resp \in AuthenticationResponses(header, cookie) :
             \E out \in AuthenticationOutcomes(header, cookie, resp) :
                verifyPasskeyAuthentication(p, header, cookie, resp, out)
    \/ \E p \in P, ok \in BOOLEAN : verifyPasskeyAuthentication_update(p, ok)
    \/ \E p \in P, ok \in BOOLEAN : verifyPasskeyAuthentication_session(p, ok)

\* Concurrent requests, within one cookie lifetime.
Next ==
    \/ ClientReadsAnswer
    \/ Requests(Procs, {Undefined}, MaxPasskeys)

Spec == Init /\ [][Next]_vars

\* One request at a time, while the clock runs.
NextTTL ==
    \/ ClientReadsAnswer
    \/ Tick
    \/ Requests({1}, {Undefined}, MaxPasskeys)

SpecTTL == Init /\ [][NextTTL]_vars

\* One request at a time, a passkey table of several rows.
NextRows ==
    \/ ClientReadsAnswer
    \/ Requests({1}, {Undefined}, MaxRows)

SpecRows == Init /\ [][NextRows]_vars

\* One request at a time, with every callbackURL.
NextRedirect ==
    \/ ClientReadsAnswer
    \/ Requests({1}, CallbackURLs, MaxPasskeys)

SpecRedirect == Init /\ [][NextRedirect]_vars

\* passkey(options) called with or without an origin, in production or in
\* development.
InitConfig ==
    /\ options \in [origin : {NoHeader, SiteOrigin}, rpID : {ConfiguredRpID}]
    /\ nodeEnv \in {"production", "development"}
    /\ store = <<>>
    /\ sessions = <<>>
    /\ issued = <<>>
    /\ now = 0
    /\ req = [p \in Procs |-> Idle]
    /\ consumed = {}
    /\ last = NoReply

\* One request at a time, under every configuration.
NextConfig ==
    \/ ClientReadsAnswer
    \/ Requests({1}, {Undefined}, MaxPasskeys)

SpecConfig == InitConfig /\ [][NextConfig]_vars

\* ---------------------------------------------------------------- properties
\* What a request presented, told apart from what the handler made of it.
ValidlySealed(cookie) == cookie \in 1..Len(issued)
SealedSubject(cookie) == issued[cookie].userData.id
Stored(id) == \E i \in 1..Len(store) : store[i].id = id
InFlight == {req[p] : p \in {q \in Procs : req[q].pc # "idle"}}

\* C1: a verify-registration by the caller the token was sealed for, with a
\* response the oracle verifies (transports or not) and a store that takes the
\* row, answers 200 with one new passkey row owned by the caller, holding the
\* oracle's counter, and makes no session.
C1_RegistrationPersistsCredential ==
    ( /\ last.kind = "reg"
      /\ last.origin # NoHeader
      /\ ValidlySealed(last.cookie)
      /\ SealedSubject(last.cookie) = last.caller
      /\ last.oracle = "verified"
      /\ ~last.storeFailed )
    => /\ last.status = 200
       /\ last.created
       /\ \E i \in 1..Len(store) :
             /\ store[i].id = last.respId
             /\ store[i].userId = last.caller
             /\ store[i].counter = last.respCounter
       /\ last.session = 0

\* C2: a verify-registration that gets as far as reading a token sealed for
\* another user than the caller is answered UNAUTHORIZED, without the oracle
\* having been called and without a passkey row having been created.
C2_SubjectMismatchUnauthorized ==
    /\ ( /\ last.kind = "reg"
         /\ last.origin # NoHeader
         /\ ValidlySealed(last.cookie)
         /\ SealedSubject(last.cookie) # last.caller )
       => /\ last.status = 401
          /\ last.message = "UNAUTHORIZED"
          /\ last.oracle = "none"
          /\ ~last.created
    /\ (last.kind = "reg" /\ last.created)
       => SealedSubject(last.cookie) = last.caller

C2_Witness ==
    /\ last.kind = "reg"
    /\ ValidlySealed(last.cookie)
    /\ SealedSubject(last.cookie) # last.caller
    /\ last.message = "UNAUTHORIZED"
    /\ Len(store) > 0

\* C3: a verify-authentication that writes the counter writes a value strictly
\* greater than the one stored just before the write; so a response whose
\* counter is not above the stored one never succeeds.
C3_CounterStrictlyIncreases ==
    /\ (last.kind = "auth" /\ last.updated) => last.respCounter > last.prevCounter
    /\ \A r \in InFlight : r.updated => r.respCounter > r.prevCounter

\* C4: a verify request presenting a token that a successful verify step has
\* already used is answered 400 with a null body (challenge missing): nothing
\* is created for it, and it does not get past the cookie check.
C4_ChallengeSingleUse ==
    /\ (last # NoReply /\ last.usedBefore /\ last.origin # NoHeader)
       => /\ last.status = 400
          /\ last.message = ""
          /\ last.oracle = "none"
          /\ ~last.created
          /\ last.session = 0
    /\ \A r \in InFlight : ~r.usedBefore

\* C5: no step ever lowers the stored counter of a passkey row.
C5_CounterMonotonic ==
    [][\A i \in 1..Len(store) : store'[i].counter >= store[i].counter]_vars

\* C6: no two sessions come from the same authenticator response (the same
\* credential id with the same reported counter).
C6_SameResponseOneSession ==
    \A i, j \in 1..Len(sessions) :
        i # j => ~( /\ sessions[i].passkeyId = sessions[j].passkeyId
                    /\ sessions[i].counter = sessions[j].counter )

\* C7: a verify request presenting a token issued more than 24 hours before
\* is answered as one presenting a forged token is (400, null body, no
\* message), and reaches neither the oracle nor a store mutation.
C7_ExpiredTokenRejected ==
    /\ (last # NoReply /\ last.expiredAtStart)
       => /\ last.status = 400
          /\ last.body = "null"
          /\ last.message = ""
          /\ last.oracle = "none"
          /\ ~last.created
          /\ ~last.updated
    /\ \A r \in InFlight : ~r.expiredAtStart

\* C8: every session's subject is the owner of the stored passkey the
\* response named, whatever subject the token was sealed for, and the request
\* that made the session had updated that passkey's counter.
C8_SessionSubjectIsOwner ==
    \A i \in 1..Len(sessions) :
        /\ Stored(sessions[i].passkeyId)
        /\ \E k \in 1..Len(store) :
              /\ store[k].id = sessions[i].passkeyId
              /\ \A m \in 1..(k - 1) : store[m].id # sessions[i].passkeyId
              /\ store[k].userId = sessions[i].userId
        /\ sessions[i].updated

C8_Witness ==
    /\ last.kind = "auth"
    /\ last.status = 200
    /\ last.session = Len(sessions)
    /\ SealedSubject(last.cookie) # sessions[last.session].userId
    /\ sessions[last.session].userId \in Users

\* C9: a session exists only for a request whose counter update went through:
\* an answer to a request the oracle did not verify, or whose update threw,
\* is not a 200 and comes with no session; a request about to create its
\* session has been verified and has updated the counter.
C9_SessionOnlyAfterUpdate ==
    /\ (last.kind = "auth" /\ (last.oracle # "verified" \/ ~last.updated))
       => (last.session = 0 /\ last.status # 200)
    /\ (last.kind = "auth" /\ last.session # 0)
       => (last.updated /\ last.status = 200)
    /\ \A r \in InFlight :
          r.pc = "auth_session" => (r.updated /\ r.oracle = "verified")
    /\ \A i \in 1..Len(sessions) : sessions[i].updated

C9_Witness ==
    /\ last.kind = "auth"
    /\ last.oracle = "verified"
    /\ last.storeFailed
    /\ ~last.updated
    /\ last.status = 400
    /\ last.session = 0

\* C10: a verify-authentication that gets as far as looking up a credential
\* id no passkey row has is answered 401 "Passkey not found", without the
\* oracle having been called, a counter written or a session made.
C10_UnknownCredential ==
    /\ ( /\ last.kind = "auth"
         /\ last.origin # NoHeader
         /\ ValidlySealed(last.cookie)
         /\ ~Stored(last.respId) )
       => /\ last.status = 401
          /\ last.message = "Passkey not found"
          /\ last.oracle = "none"
          /\ ~last.updated
          /\ last.session = 0
    /\ \A r \in InFlight : r.kind = "auth" => Stored(r.respId)

C10_Witness ==
    /\ last.kind = "auth"
    /\ last.message = "Passkey not found"
    /\ ~Stored(last.respId)
    /\ Len(store) > 0

\* The user a generate-authenticate-options request names: by its session,
\* or else by the email of its body.
IdentifiedUser(r) ==
    IF r.caller # Anonymous THEN r.caller
    ELSE IF r.email # Undefined THEN r.email
    ELSE Anonymous

OwnedBy(user) == {store[i].id : i \in {k \in 1..Len(store) : store[k].userId = user}}

\* C11: the options generate-authenticate-options answers with carry an
\* allow-list exactly when the request names a user, by its session or by the
\* email of its body (a user who owns no passkey may get none); the list holds
\* exactly the ids of that user's passkeys.
C11_AllowListForIdentifiedUser ==
    last.kind = "auth_options" =>
        IF IdentifiedUser(last) = Anonymous
        THEN ~last.allowCredentials.present
        ELSE /\ OwnedBy(IdentifiedUser(last)) # {}
                  => last.allowCredentials.present
             /\ last.allowCredentials.present
                  => last.allowCredentials.ids = OwnedBy(IdentifiedUser(last))

\* C12: verify-authentication answers 401 when the passkey is unknown or the
\* oracle does not accept the response (verified: false, or an exception), 400
\* when the challenge cookie is missing or invalid, and 200 only with a
\* session it has created.
C12_AuthenticationStatuses ==
    last.kind = "auth" =>
        /\ (last.origin # NoHeader /\ ~ValidlySealed(last.cookie))
              => last.status = 400
        /\ ( /\ last.origin # NoHeader
             /\ ValidlySealed(last.cookie)
             /\ \/ last.passkey = NoPasskey
                \/ last.oracle \in {"rejected", "threw"} )
              => last.status = 401
        /\ last.status = 200
              => (last.session \in 1..Len(sessions) /\ last.oracle = "verified")

\* The step by which verify-registration answers.
RegistrationAnswers == last = NoReply /\ last'.kind = "reg"

\* The answer of a request that ended with nothing created.
NothingEnrolled == store' = store /\ ~last'.created

\* C13 as stated: verify-registration answers either 200 with the passkey it
\* has just added to the table, or 400 with a null body and the table as it
\* was; it never makes a session.
C13_RegistrationFailuresAre400 ==
    [][RegistrationAnswers =>
          /\ \/ /\ last'.status = 200
                /\ last'.body = "passkey"
                /\ store' = Append(store, last'.passkey)
             \/ /\ last'.status = 400
                /\ last'.body = "null"
                /\ NothingEnrolled
          /\ sessions' = sessions]_vars

\* C13 amended: as stated, but for the subject mismatch, which is answered 401
\* UNAUTHORIZED (an error, not a null body); a create that throws is answered
\* 400 and leaves the table as it was.
C13_RegistrationAnswers ==
    [][RegistrationAnswers =>
          /\ \/ /\ last'.status = 200
                /\ last'.body = "passkey"
                /\ last'.created
                /\ ~last'.storeFailed
                /\ store' = Append(store, last'.passkey)
                /\ last'.passkey.id = last'.respId
             \/ /\ last'.status = 401
                /\ last'.message = "UNAUTHORIZED"
                /\ ValidlySealed(last'.cookie)
                /\ SealedSubject(last'.cookie) # last'.caller
                /\ NothingEnrolled
             \/ /\ last'.status = 400
                /\ last'.body = "null"
                /\ NothingEnrolled
          /\ ( /\ last'.origin # NoHeader
               /\ ValidlySealed(last'.cookie)
               /\ SealedSubject(last'.cookie) # last'.caller )
                => last'.status = 401
          /\ sessions' = sessions]_vars

C13_Witness ==
    /\ last.kind = "reg"
    /\ last.oracle = "verified"
    /\ last.storeFailed
    /\ last.status = 400
    /\ ~Stored(last.respId)

\* The redirect target a challenge cookie was issued with.
SuppliedCallbackURL(cookie) == issued[cookie].callbackURL

\* C14 as stated: a verify-authentication that succeeds answers with the
\* session and, when generate-authenticate-options was given a callbackURL,
\* with that callbackURL and redirect: true; with the session alone when it
\* was given none.
C14_RedirectCarried ==
    (last.kind = "auth" /\ last.status = 200) =>
        /\ last.session \in 1..Len(sessions)
        /\ IF SuppliedCallbackURL(last.cookie) # Undefined
           THEN /\ last.body = "redirect"
                /\ last.callbackURL = SuppliedCallbackURL(last.cookie)
           ELSE last.body = "session"

\* C14 amended: as stated, for a callbackURL that is not the empty string; an
\* empty callbackURL is answered as none is, with the session alone.
C14_NonEmptyRedirectCarried ==
    /\ (last.kind = "auth" /\ last.status = 200) =>
          /\ last.session \in 1..Len(sessions)
          /\ IF SuppliedCallbackURL(last.cookie) \notin {Undefined, ""}
             THEN /\ last.body = "redirect"
                  /\ last.callbackURL = SuppliedCallbackURL(last.cookie)
             ELSE last.body = "session"
    /\ last.kind = "auth_options"
          => SuppliedCallbackURL(last.cookie) = last.callbackURL

C14_Witness ==
    /\ last.kind = "auth"
    /\ last.status = 200
    /\ last.body = "redirect"
    /\ last.callbackURL = "/dashboard"
    /\ last.session = Len(sessions)

C16_FailureLeavesNoTrace ==
    (last.kind \in {"reg", "auth"} /\ last.status \in {400, 401}) =>
        /\ ~last.created
        /\ ~last.updated
        /\ last.session = 0

\* C17: a verify request's origin is the configured origin when there is one
\* and its origin header otherwise; with neither it is answered 400 with a
\* null body, the cookie not read, the passkey not looked up and the oracle
\* not called.
C17_EffectiveOrigin ==
    /\ last.kind \in {"reg", "auth"} =>
          /\ options.origin # NoHeader => last.origin = options.origin
          /\ options.origin = NoHeader => last.origin = last.header
          /\ last.origin = NoHeader =>
                /\ last.status = 400
                /\ last.body = "null"
                /\ last.message = ""
                /\ last.challenge = 0
                /\ last.passkey = NoPasskey
                /\ last.oracle = "none"
                /\ ~last.created
                /\ ~last.updated
                /\ last.session = 0
    /\ \A r \in InFlight :
          /\ r.origin # NoHeader
          /\ options.origin # NoHeader => r.origin = options.origin
          /\ options.origin = NoHeader => r.origin = r.header

C17_Witness ==
    /\ last.kind = "auth"
    /\ last.origin = NoHeader
    /\ ValidlySealed(last.cookie)
    /\ Stored(last.respId)
    /\ last.status = 400

\* C18: a verify request gets past the cookie check only with the challenge
\* cookie issued last: one presenting an earlier cookie is not taken to the
\* oracle (registration) or to the passkey lookup (authentication).
C18_OnlyLatestChallenge ==
    [][/\ (RegistrationAnswers /\ last'.oracle # "none")
             => last'.cookie = Len(issued)
       /\ \A p \in Procs :
             (req[p].pc = "idle" /\ req'[p].pc = "auth_update")
                => req'[p].cookie = Len(issued)
       /\ (last = NoReply /\ last'.kind = "auth" /\ last'.challenge # 0)
             => last'.cookie = Len(issued)]_vars

\* C19: a step changes of the passkey rows only the counter of the rows with
\* the id a verify-authentication request in its update names, to the counter
\* of that request's response; no row is removed or reordered.
C19_OnlyCounterOfNamedCredential ==
    [][/\ Len(store') >= Len(store)
       /\ \A i \in 1..Len(store) :
             /\ store'[i].id = store[i].id
             /\ store'[i].userId = store[i].userId
             /\ store'[i].publicKey = store[i].publicKey
             /\ store'[i].createdAt = store[i].createdAt
             /\ store'[i].counter # store[i].counter =>
                   \E p \in Procs :
                      /\ req[p].pc = "auth_update"
                      /\ req[p].respId = store[i].id
                      /\ store'[i].counter = req[p].respCounter]_vars

C19_Witness ==
    /\ last.kind = "auth"
    /\ last.status = 200
    /\ Len(store) = MaxRows
    /\ \E i \in 1..Len(store) :
          /\ store[i].id # last.respId
          /\ store[i].counter # last.respCounter
    /\ \E i \in 1..Len(store) :
          /\ store[i].id = last.respId
          /\ store[i].counter = last.respCounter
          /\ last.prevCounter # last.respCounter

\* C20: the rpID a verify step hands the oracle as expected is the rpID the
\* issue steps put into the options they answer with (opts.rpID), in both
\* flows, whatever the configuration.
C20_ExpectedRpIDIsIssuedRpID ==
    /\ last.kind \in {"reg_options", "auth_options"} => last.rpID = OptsRpID
    /\ (last.kind \in {"reg", "auth"} /\ last.oracle # "none")
          => last.rpID = OptsRpID
    /\ \A r \in InFlight : r.rpID = OptsRpID
====
